---- MODULE Spec2Model ----
(***************************************************************************)
(* Checkout / inventory consistency engine of mogipay.                     *)
(*                                                                         *)
(* The persistent store is PostgreSQL at READ COMMITTED: a statement sees  *)
(* the latest committed rows plus the writes of its own transaction, a     *)
(* SELECT ... FOR UPDATE or UPDATE holds the row lock until the            *)
(* transaction commits or rolls back.  Every request works through its own *)
(* SQLAlchemy session (autoflush off, expire_on_commit on): an object that *)
(* is already loaded in the session and not expired keeps its attribute    *)
(* values when a later SELECT returns its row again; commit expires every  *)
(* object of the session; objects nothing references any more leave the    *)
(* (weak) identity map.                                                    *)
(***************************************************************************)
EXTENDS Integers, Sequences, FiniteSets, TLC

\* ---------------------------------------------------------------- bounds
MaxStock == 2
MaxComponentStock == 3
MaxQty == 2
MaxLines == 2
MaxCalls == 2
MaxUpdates == 1
MaxQueries == 2
MaxTickets == 2
MaxPrice == 2
Attempts == 3

\* ------------------------------------------------------------ the universe
\* processes are numbered: the bare decrement transactions first, then the
\* two checkout terminals
Txns == 1..Attempts
Workers == {Attempts + 1, Attempts + 2}
Procs == Workers \cup Txns

SingleIds == {"P1", "P2"}
SetIds == {"S1"}
ProductIds == SingleIds \cup SetIds
UnknownIds == {"X0"}
AllIds == ProductIds \cup UnknownIds

Names == {"n1", "n2"}
NoOne == 0
NoVal == -1

VARIABLES
  products,    \* table products: id -> row, NoRow where no row exists
  set_items,   \* table set_items, in table order
  sales,       \* tables sales_history + sale_items: committed sales, in order
  rowLock,     \* product id -> the process whose transaction holds the row lock
  pc,          \* process -> position in its handler
  cart,        \* process -> items of the checkout in progress
  session,     \* process -> identity map of the Product objects item_details holds
  pending,     \* process -> flushed, uncommitted current_stock per product
  idx,         \* process -> loop index (cart line / required product)
  sub,         \* process -> index into the set_items of the current set line
  insufficient,\* process -> insufficient_items collected so far
  outcome,     \* process -> result or exception of the finished call
  before,      \* process -> the products table when the call began
  callId,      \* process -> number of the call in progress
  began,       \* process -> number of product updates done when the call began
  ncalls,      \* calls started so far
  nupdates,    \* product / price updates done so far
  calc,        \* the last calculate_set_stock call: set product and result
  status,      \* the inventory status queries made: how many, the last result
  admin,       \* the last product management call: operation, product, result
  tickets,     \* table kitchen_tickets: ticket id -> row, NoTicket where none
  kitchen,     \* process -> the kitchen call in progress: arguments and locals
  listed       \* the get_active_tickets calls made: how many, the last result

kitchenVars == <<tickets, kitchen, listed>>

vars == <<products, set_items, sales, rowLock, pc, cart, session, pending,
          idx, sub, insufficient, outcome, before, callId, began, ncalls, nupdates,
          calc, status, admin, kitchenVars>>

\* ------------------------------------------------------------------- rows
NoRow == [product_type |-> "none", name |-> "-", unit_cost |-> 0,
          sale_price |-> 0, initial_stock |-> 0, current_stock |-> 0]

Product(t, n, c, p, s) ==
  [product_type |-> t, name |-> n, unit_cost |-> c, sale_price |-> p,
   initial_stock |-> s, current_stock |-> s]

SetItem(s, i, q) == [set_product_id |-> s, item_product_id |-> i, quantity |-> q]

NoObject == [state |-> "absent", row |-> NoRow]
EmptySession == [p \in AllIds |-> NoObject]
NoPending == [p \in AllIds |-> NoVal]
NoOutcome == [kind |-> "none", product_id |-> "-", requested |-> 0, available |-> 0]
NoBefore == [p \in AllIds |-> NoRow]
NoCalc == [set_product_id |-> "-", result |-> NoVal]
NoInventory == [product_type |-> "none", current_stock |-> 0, initial_stock |-> 0,
                stock_rate |-> <<0, 1>>, is_out_of_stock |-> FALSE]
NoStatus == [n |-> 0, result |-> [p \in AllIds |-> NoInventory], read |-> << >>]
\* ticket ids: those of the tickets there may be, and one more that is never
\* a ticket's
TicketIds == 1..(MaxTickets + 1)
NoTickets == [k \in TicketIds |-> [sale_id |-> 0, completed_at |-> 0, completed_by |-> "-"]]
NoRequest == [product_type |-> "-", set_items |-> << >>]
NoAdmin == [op |-> "none", product_id |-> "-", request |-> NoRequest, result |-> "-"]
NoTicket == [sale_id |-> 0, completed_at |-> 0, completed_by |-> "-"]
NoKitchenCall == [pc |-> "idle", n |-> 0, ticket_id |-> 0, completed_by |-> "-",
                  completed_at |-> 0, result |-> "none"]
NoListed == [n |-> 0, result |-> << >>]

RECURSIVE SumSeq(_)
SumSeq(s) == IF s = <<>> THEN 0 ELSE Head(s) + SumSeq(Tail(s))

\* ------------------------------------------------------ store and session
\* what a statement of process w reads for row pid
Visible(w, pid) ==
  IF pending[w][pid] # NoVal
    THEN [products[pid] EXCEPT !.current_stock = pending[w][pid]]
    ELSE products[pid]

\* the products item_details keeps a reference to
Held(c) == {c[i].product_id : i \in 1..Len(c)}

\* ProductRepository.get_by_id: the object the SELECT hands back
get_by_id(w, pid) ==
  IF session[w][pid].state = "loaded" THEN session[w][pid].row ELSE Visible(w, pid)

\* the identity map after that SELECT
SessionAfterGet(w, pid) ==
  IF session[w][pid].state # "loaded" /\ pid \in Held(cart[w]) /\ products[pid] # NoRow
    THEN [session[w] EXCEPT ![pid] = [state |-> "loaded", row |-> Visible(w, pid)]]
    ELSE session[w]

\* Session.commit / Session.rollback expire every object of the session
ExpireAll(s) ==
  [p \in AllIds |-> IF s[p].state = "absent" THEN NoObject
                    ELSE [state |-> "expired", row |-> NoRow]]

\* SetItemRepository.get_by_set_product_id
get_by_set_product_id(sid) ==
  SelectSeq(set_items, LAMBDA r : r.set_product_id = sid)

ReleaseLocks(w) == [p \in AllIds |-> IF rowLock[p] = w THEN NoOne ELSE rowLock[p]]

\* (a commit that publishes the write to P1 and drops the others)
CommitRows_FirstRow(w) ==
  [p \in AllIds |->
     IF pending[w][p] # NoVal /\ p = "P1"
       THEN [products[p] EXCEPT !.current_stock = pending[w][p]]
       ELSE products[p]]

\* COMMIT: the transaction's flushed stock values become the committed rows
CommitRows(w) ==
  [p \in AllIds |->
     IF pending[w][p] # NoVal
       THEN [products[p] EXCEPT !.current_stock = pending[w][p]]
       ELSE products[p]]

\* ------------------------------------------- InventoryService: requirements
\* what one checkout item adds to required_quantities, in order
Expand(line) ==
  LET t == products[line.product_id].product_type
      items == get_by_set_product_id(line.product_id)
  IN IF t = "single" THEN << [id |-> line.product_id, qty |-> line.quantity] >>
     ELSE IF t = "set"
       THEN [i \in 1..Len(items) |->
               [id |-> items[i].item_product_id,
                qty |-> items[i].quantity * line.quantity]]
       ELSE << >>

RECURSIVE Additions(_)
Additions(c) == IF c = << >> THEN << >> ELSE Expand(Head(c)) \o Additions(Tail(c))

RECURSIVE KeysInOrder(_, _)
KeysInOrder(adds, seen) ==
  IF adds = << >> THEN << >>
  ELSE IF Head(adds).id \in seen THEN KeysInOrder(Tail(adds), seen)
  ELSE << Head(adds).id >> \o KeysInOrder(Tail(adds), seen \cup {Head(adds).id})

RECURSIVE QtyFor(_, _)
QtyFor(adds, p) ==
  IF adds = << >> THEN 0
  ELSE (IF Head(adds).id = p THEN Head(adds).qty ELSE 0) + QtyFor(Tail(adds), p)

\* the keys of the dict required_quantities, in insertion order
required_keys(c) == KeysInOrder(Additions(c), {})

\* required_quantities[p]
required_quantities(c, p) == QtyFor(Additions(c), p)

\* ------------------------------------------------ SalesService: snapshot
\* (a subtotal that leaves the quantity out)
sale_item_UnitSubtotal(obj, pid, quantity) ==
  [product_id |-> pid, product_name |-> obj.name, quantity |-> quantity,
   unit_cost |-> obj.unit_cost, sale_price |-> obj.sale_price,
   subtotal |-> obj.sale_price]

\* one element of sales_items: the price snapshot of a cart item
sale_item(obj, pid, quantity) ==
  [product_id |-> pid, product_name |-> obj.name, quantity |-> quantity,
   unit_cost |-> obj.unit_cost, sale_price |-> obj.sale_price,
   subtotal |-> obj.sale_price * quantity]

sales_items(w) ==
  [i \in 1..Len(cart[w]) |->
     sale_item(session[w][cart[w][i].product_id].row,
               cart[w][i].product_id, cart[w][i].quantity)]

total_amount(items) == SumSeq([i \in 1..Len(items) |-> items[i].subtotal])

\* ---------------------------------------- ProductRepository.decrement_stock
\* (a decrement that checks nothing)
SufficientStock_Unguarded(current_stock, quantity) == TRUE

\* the write goes through when the object's stock covers the quantity and
\* the row passes CHECK (current_stock >= 0)
SufficientStock(current_stock, quantity) ==
  /\ ~(current_stock < quantity)
  /\ current_stock - quantity >= 0

\* (a plain SELECT, which waits for nobody)
with_for_update_Unlocked(w, pid) == TRUE

\* with_for_update(): the SELECT waits while another transaction holds the row
with_for_update(w, pid) == rowLock[pid] \in {NoOne, w}

\* the Product object the SELECT ... FOR UPDATE of decrement_stock yields:
\* attributes of an object that is loaded in the session are not overwritten
LockedObject(w, pid) ==
  IF session[w][pid].state = "loaded" THEN session[w][pid].row ELSE Visible(w, pid)

\* ----------------------------------------------- SalesService.process_checkout
Line(w) == cart[w][idx[w]]

\* a request arrives: a fresh session, the cart of the request
StartCheckout(w, c) ==
  /\ pc[w] = "idle"
  /\ ncalls' = ncalls + 1
  /\ callId' = [callId EXCEPT ![w] = ncalls + 1]
  /\ cart' = [cart EXCEPT ![w] = c]
  /\ before' = [before EXCEPT ![w] = products]
  /\ began' = [began EXCEPT ![w] = nupdates]
  /\ idx' = [idx EXCEPT ![w] = 1]
  /\ pc' = [pc EXCEPT ![w] = "resolve"]
  /\ UNCHANGED <<products, set_items, sales, rowLock, session, pending, sub,
                 insufficient, outcome, nupdates, calc, status, admin, kitchenVars>>

\* step 1, one item: get_by_id, ValueError when there is no such product
Resolve(w) ==
  /\ pc[w] = "resolve"
  /\ LET pid == Line(w).product_id IN
     IF products[pid] = NoRow
       THEN /\ outcome' = [outcome EXCEPT ![w] =
                 [kind |-> "ValueError", product_id |-> pid,
                  requested |-> 0, available |-> 0]]
            /\ pc' = [pc EXCEPT ![w] = "done"]
            /\ session' = [session EXCEPT ![w] = EmptySession]
            /\ UNCHANGED idx
       ELSE /\ session' = [session EXCEPT ![w] = SessionAfterGet(w, pid)]
            /\ IF idx[w] < Len(cart[w])
                 THEN /\ idx' = [idx EXCEPT ![w] = idx[w] + 1]
                      /\ UNCHANGED pc
                 ELSE /\ idx' = [idx EXCEPT ![w] = 1]
                      /\ pc' = [pc EXCEPT ![w] = "check"]
            /\ UNCHANGED outcome
  /\ UNCHANGED <<products, set_items, sales, rowLock, cart, pending, sub,
                 insufficient, before, callId, began, ncalls, nupdates, calc, status, admin, kitchenVars>>

\* (an availability check that reads every required product FOR UPDATE)
CheckStock_Locking(w) ==
  /\ pc[w] = "check"
  /\ LET keys == required_keys(cart[w])
         done == idx[w] > Len(keys)
         pid == keys[idx[w]]
         short == get_by_id(w, pid).current_stock < required_quantities(cart[w], pid)
         found == IF done THEN insufficient[w]
                  ELSE IF short THEN Append(insufficient[w], pid) ELSE insufficient[w]
         last == done \/ idx[w] = Len(keys)
     IN /\ insufficient' = [insufficient EXCEPT ![w] = found]
        /\ rowLock' = IF done THEN rowLock ELSE [rowLock EXCEPT ![pid] = w]
        /\ session' = [session EXCEPT ![w] =
                         IF done THEN session[w] ELSE SessionAfterGet(w, pid)]
        /\ IF last
             THEN /\ pc' = [pc EXCEPT ![w] =
                             IF found = << >> THEN "create_sale" ELSE "raise"]
                  /\ idx' = [idx EXCEPT ![w] = 1]
             ELSE /\ idx' = [idx EXCEPT ![w] = idx[w] + 1]
                  /\ UNCHANGED pc
  /\ UNCHANGED <<products, set_items, sales, cart, pending, sub,
                 outcome, before, callId, began, ncalls, nupdates, calc, status, admin, kitchenVars>>

\* step 2, check_stock_availability, one required product: compare the
\* product's stock with the accumulated requirement
CheckStock(w) ==
  /\ pc[w] = "check"
  /\ LET keys == required_keys(cart[w])
         done == idx[w] > Len(keys)
         pid == keys[idx[w]]
         short == get_by_id(w, pid).current_stock < required_quantities(cart[w], pid)
         found == IF done THEN insufficient[w]
                  ELSE IF short THEN Append(insufficient[w], pid) ELSE insufficient[w]
         last == done \/ idx[w] = Len(keys)
     IN /\ insufficient' = [insufficient EXCEPT ![w] = found]
        /\ session' = [session EXCEPT ![w] =
                         IF done THEN session[w] ELSE SessionAfterGet(w, pid)]
        /\ IF last
             THEN /\ pc' = [pc EXCEPT ![w] =
                             IF found = << >> THEN "create_sale" ELSE "raise"]
                  /\ idx' = [idx EXCEPT ![w] = 1]
             ELSE /\ idx' = [idx EXCEPT ![w] = idx[w] + 1]
                  /\ UNCHANGED pc
  /\ UNCHANGED <<products, set_items, sales, rowLock, cart, pending, sub,
                 outcome, before, callId, began, ncalls, nupdates, calc, status, admin, kitchenVars>>

\* the items of the cart whose product is pid, in cart order
ItemsFor(c, pid) == SelectSeq(c, LAMBDA l : l.product_id = pid)

\* the cart is unavailable: next(...) over the cart items, then
\* InsufficientStockError for the first insufficient product
RaiseInsufficient(w) ==
  /\ pc[w] = "raise"
  /\ LET first_insufficient_id == insufficient[w][1]
         matching == ItemsFor(cart[w], first_insufficient_id)
         product == get_by_id(w, first_insufficient_id)
     IN outcome' = [outcome EXCEPT ![w] =
          IF matching = << >>
            THEN [kind |-> "StopIteration", product_id |-> first_insufficient_id,
                  requested |-> 0, available |-> 0]
            ELSE [kind |-> "InsufficientStock", product_id |-> first_insufficient_id,
                  requested |-> matching[1].quantity,
                  available |-> product.current_stock]]
  /\ pc' = [pc EXCEPT ![w] = "done"]
  /\ session' = [session EXCEPT ![w] = EmptySession]
  /\ UNCHANGED <<products, set_items, sales, rowLock, cart, pending, idx, sub,
                 insufficient, before, callId, began, ncalls, nupdates, calc, status, admin, kitchenVars>>

\* steps 4 and 5: the price snapshot of every item, then
\* SalesHistoryRepository.create_sale, which commits
CreateSale(w) ==
  /\ pc[w] = "create_sale"
  /\ LET items == sales_items(w) IN
     sales' = Append(sales, [call |-> callId[w], total_amount |-> total_amount(items),
                             items |-> items])
  /\ session' = [session EXCEPT ![w] = ExpireAll(session[w])]
  /\ idx' = [idx EXCEPT ![w] = 1]
  /\ sub' = [sub EXCEPT ![w] = 1]
  /\ pc' = [pc EXCEPT ![w] = "decrement"]
  /\ UNCHANGED <<products, set_items, rowLock, cart, pending, insufficient,
                 outcome, before, callId, began, ncalls, nupdates, calc, status, admin, kitchenVars>>

\* step 6: product.product_type of an expired object reloads it
Refresh(w) ==
  /\ pc[w] = "decrement"
  /\ session[w][Line(w).product_id].state = "expired"
  /\ session' = [session EXCEPT ![w] = SessionAfterGet(w, Line(w).product_id)]
  /\ UNCHANGED <<products, set_items, sales, rowLock, pc, cart, pending, idx, sub,
                 insufficient, outcome, before, callId, began, ncalls, nupdates, calc, status, admin, kitchenVars>>

\* (the component quantity of one set, whatever the quantity sold)
Target_PerSet(w) ==
  LET line == Line(w)
      set_items_of == get_by_set_product_id(line.product_id)
  IN IF products[line.product_id].product_type = "single"
       THEN [id |-> line.product_id, qty |-> line.quantity, last |-> TRUE, none |-> FALSE]
       ELSE IF set_items_of = << >>
         THEN [id |-> line.product_id, qty |-> 0, last |-> TRUE, none |-> TRUE]
         ELSE [id |-> set_items_of[sub[w]].item_product_id,
               qty |-> set_items_of[sub[w]].quantity,
               last |-> sub[w] = Len(set_items_of), none |-> FALSE]

\* the decrement the loop of step 6 does next: product and quantity
Target(w) ==
  LET line == Line(w)
      set_items_of == get_by_set_product_id(line.product_id)
  IN IF products[line.product_id].product_type = "single"
       THEN [id |-> line.product_id, qty |-> line.quantity, last |-> TRUE, none |-> FALSE]
       ELSE IF set_items_of = << >>
         THEN [id |-> line.product_id, qty |-> 0, last |-> TRUE, none |-> TRUE]
         ELSE [id |-> set_items_of[sub[w]].item_product_id,
               qty |-> set_items_of[sub[w]].quantity * line.quantity,
               last |-> sub[w] = Len(set_items_of), none |-> FALSE]

\* step 6, one decrement_stock: lock the row, check the object's stock,
\* write; InsufficientStockError rolls the unit of work back
Decrement(w) ==
  /\ pc[w] = "decrement"
  /\ session[w][Line(w).product_id].state = "loaded"
  /\ LET t == Target(w)
         obj == LockedObject(w, t.id)
         ok == t.none \/ SufficientStock(obj.current_stock, t.qty)
         new == obj.current_stock - t.qty
     IN /\ t.none \/ with_for_update(w, t.id)
        /\ IF ok
             THEN /\ rowLock' = IF t.none THEN rowLock ELSE [rowLock EXCEPT ![t.id] = w]
                  /\ pending' = IF t.none THEN pending
                                ELSE [pending EXCEPT ![w][t.id] = new]
                  /\ session' = IF t.none \/ t.id \notin Held(cart[w]) THEN session
                                ELSE [session EXCEPT ![w][t.id] =
                                        [state |-> "loaded",
                                         row |-> [obj EXCEPT !.current_stock = new]]]
                  /\ IF ~t.last
                       THEN /\ sub' = [sub EXCEPT ![w] = sub[w] + 1]
                            /\ UNCHANGED <<idx, pc, calc>>
                       ELSE /\ sub' = [sub EXCEPT ![w] = 1]
                            /\ IF idx[w] < Len(cart[w])
                                 THEN /\ idx' = [idx EXCEPT ![w] = idx[w] + 1]
                                      /\ UNCHANGED pc
                                 ELSE /\ idx' = [idx EXCEPT ![w] = 1]
                                      /\ pc' = [pc EXCEPT ![w] = "commit"]
                  /\ UNCHANGED outcome
             ELSE /\ rowLock' = ReleaseLocks(w)
                  /\ pending' = [pending EXCEPT ![w] = NoPending]
                  /\ session' = [session EXCEPT ![w] = EmptySession]
                  /\ outcome' = [outcome EXCEPT ![w] =
                       [kind |-> "LedgerInsufficientStock", product_id |-> t.id,
                        requested |-> t.qty, available |-> obj.current_stock]]
                  /\ pc' = [pc EXCEPT ![w] = "done"]
                  /\ UNCHANGED <<idx, sub, calc>>
  /\ UNCHANGED <<products, set_items, sales, cart, insufficient, before, callId, began,
                 ncalls, nupdates, calc, status, admin, kitchenVars>>

\* step 7: db.commit()
Commit(w) ==
  /\ pc[w] = "commit"
  /\ products' = CommitRows(w)
  /\ rowLock' = ReleaseLocks(w)
  /\ pending' = [pending EXCEPT ![w] = NoPending]
  /\ session' = [session EXCEPT ![w] = EmptySession]
  /\ outcome' = [outcome EXCEPT ![w] =
       [kind |-> "ok", product_id |-> "-", requested |-> 0, available |-> 0]]
  /\ pc' = [pc EXCEPT ![w] = "done"]
  /\ UNCHANGED <<set_items, sales, cart, idx, sub, insufficient, before, callId, began,
                 ncalls, nupdates, calc, status, admin, kitchenVars>>

\* the response is sent and the request's session is closed
Return(w) ==
  /\ pc[w] = "done"
  /\ pc' = [pc EXCEPT ![w] = "idle"]
  /\ cart' = [cart EXCEPT ![w] = << >>]
  /\ idx' = [idx EXCEPT ![w] = 1]
  /\ sub' = [sub EXCEPT ![w] = 1]
  /\ insufficient' = [insufficient EXCEPT ![w] = << >>]
  /\ outcome' = [outcome EXCEPT ![w] = NoOutcome]
  /\ before' = [before EXCEPT ![w] = NoBefore]
  /\ callId' = [callId EXCEPT ![w] = 0]
  /\ began' = [began EXCEPT ![w] = 0]
  /\ UNCHANGED <<products, set_items, sales, rowLock, session, pending, ncalls,
                 nupdates, calc, status, admin, kitchenVars>>

\* ------------------------------------------------- sales_controller.checkout
\* the exception classes the handler catches, both of app.exceptions
CaughtInsufficientStock == {"InsufficientStock"}
CaughtProductNotFound == {"ProductNotFoundError"}

\* (a quantity constraint that lets 0 through)
quantity_ge_0(q) == q >= 0

\* CheckoutItemRequest.quantity: Field(gt=0)
quantity_gt_0(q) == q > 0

\* CheckoutRequest: items with min_length=1, every item a CheckoutItemRequest
CheckoutRequest(c) ==
  /\ Len(c) >= 1
  /\ \A i \in 1..Len(c) : quantity_gt_0(c[i].quantity)

\* POST /api/sales/checkout: the request body is validated before the handler
\* runs; a body that fails is answered 422 and process_checkout is not called
checkout(w, c) ==
  IF CheckoutRequest(c)
    THEN StartCheckout(w, c)
    ELSE /\ pc[w] = "idle"
         /\ ncalls' = ncalls + 1
         /\ callId' = [callId EXCEPT ![w] = ncalls + 1]
         /\ cart' = [cart EXCEPT ![w] = c]
         /\ before' = [before EXCEPT ![w] = products]
         /\ began' = [began EXCEPT ![w] = nupdates]
         /\ outcome' = [outcome EXCEPT ![w] =
              [kind |-> "RequestValidationError", product_id |-> "-",
               requested |-> 0, available |-> 0]]
         /\ pc' = [pc EXCEPT ![w] = "done"]
         /\ UNCHANGED <<products, set_items, sales, rowLock, session, pending, idx,
                        sub, insufficient, nupdates, calc, status, admin, kitchenVars>>

\* the HTTP response to a finished process_checkout: the two except clauses
\* of the handler, and the global exception handler for everything else
checkout_response(o) ==
  IF o.kind = "ok"
    THEN [status_code |-> 200, error_code |-> "-", product_id |-> "-",
          requested |-> 0, available |-> 0]
  ELSE IF o.kind \in CaughtInsufficientStock
    THEN [status_code |-> 400, error_code |-> "INSUFFICIENT_STOCK",
          product_id |-> o.product_id, requested |-> o.requested,
          available |-> o.available]
  ELSE IF o.kind \in CaughtProductNotFound
    THEN [status_code |-> 404, error_code |-> "RESOURCE_NOT_FOUND",
          product_id |-> o.product_id, requested |-> 0, available |-> 0]
  ELSE IF o.kind = "RequestValidationError"
    THEN [status_code |-> 422, error_code |-> "-", product_id |-> "-",
          requested |-> 0, available |-> 0]
  ELSE [status_code |-> 500, error_code |-> "INTERNAL_SERVER_ERROR",
        product_id |-> "-", requested |-> 0, available |-> 0]

\* ------------------------------------------------------------ ProductService
\* (a price update that reprices the items already sold)
update_price_Repricing(pid, new_price) ==
  /\ products[pid] # NoRow
  /\ rowLock[pid] = NoOne
  /\ products' = [products EXCEPT ![pid].sale_price = new_price]
  /\ sales' = [n \in 1..Len(sales) |->
       [sales[n] EXCEPT !.items = [i \in 1..Len(sales[n].items) |->
          IF sales[n].items[i].product_id = pid
            THEN [sales[n].items[i] EXCEPT !.sale_price = new_price]
            ELSE sales[n].items[i]]]]
  /\ nupdates' = nupdates + 1
  /\ UNCHANGED <<set_items, rowLock, pc, cart, session, pending, idx, sub,
                 insufficient, outcome, before, callId, began, ncalls, calc, status, admin, kitchenVars>>

\* update_price: get_by_id, update {"sale_price": new_price}, commit
update_price(pid, new_price) ==
  /\ products[pid] # NoRow
  /\ rowLock[pid] = NoOne
  /\ products' = [products EXCEPT ![pid].sale_price = new_price]
  /\ nupdates' = nupdates + 1
  /\ UNCHANGED <<set_items, sales, rowLock, pc, cart, session, pending, idx, sub,
                 insufficient, outcome, before, callId, began, ncalls, calc, status, admin, kitchenVars>>

\* the updates UpdateProductRequest lets through: each field given or None
Updates ==
  [name : Names \cup {"-"}, unit_cost : (1..MaxPrice) \cup {NoVal},
   sale_price : (1..MaxPrice) \cup {NoVal}]

\* (an update that also puts the stock back to its initial level)
Updated_Restocking(row, updates) ==
  [row EXCEPT
     !.name = IF updates.name = "-" THEN @ ELSE updates.name,
     !.unit_cost = IF updates.unit_cost = NoVal THEN @ ELSE updates.unit_cost,
     !.sale_price = IF updates.sale_price = NoVal THEN @ ELSE updates.sale_price,
     !.current_stock = row.initial_stock]

\* ProductRepository.update: setattr for every key of updates
Updated(row, updates) ==
  [row EXCEPT
     !.name = IF updates.name = "-" THEN @ ELSE updates.name,
     !.unit_cost = IF updates.unit_cost = NoVal THEN @ ELSE updates.unit_cost,
     !.sale_price = IF updates.sale_price = NoVal THEN @ ELSE updates.sale_price]

\* update_product: get_by_id, update, commit
update_product(pid, updates) ==
  /\ products[pid] # NoRow
  /\ rowLock[pid] = NoOne
  /\ products' = [products EXCEPT ![pid] = Updated(products[pid], updates)]
  /\ nupdates' = nupdates + 1
  /\ UNCHANGED <<set_items, sales, rowLock, pc, cart, session, pending, idx, sub,
                 insufficient, outcome, before, callId, began, ncalls, calc, status, admin, kitchenVars>>

\* the set_items a creation request may carry: none, or one or two entries
\* with distinct or repeated component ids
RequestedItems(pid) ==
  {<< >>}
    \cup {<< SetItem(pid, c, q) >> : c \in ProductIds, q \in 1..MaxQty}
    \cup {<< SetItem(pid, c, 1), SetItem(pid, d, 1) >> : c \in {"P1"}, d \in ProductIds}

\* what the tables accept of the rows create_bulk adds: every component is a
\* row of products (foreign key), no component twice (unique constraint)
Storable(items) ==
  /\ \A i \in 1..Len(items) : products[items[i].item_product_id] # NoRow
  /\ \A i, j \in 1..Len(items) :
       items[i].item_product_id = items[j].item_product_id => i = j

\* what the controller has to answer for a create and for a delete
CreateResult(pid, product_type, items, result) ==
  [op |-> "create", product_id |-> pid,
   request |-> [product_type |-> product_type, set_items |-> items], result |-> result]

DeleteResult(pid, result) ==
  [op |-> "delete", product_id |-> pid, request |-> NoRequest, result |-> result]

\* (a creation that keeps the product row when its set_items cannot be stored)
create_product_KeepingProduct(pid, product_type, initial_stock, items) ==
  /\ products[pid] = NoRow
  /\ nupdates' = nupdates + 1
  /\ IF product_type = "set" /\ items = << >>
       THEN /\ admin' = CreateResult(pid, product_type, items, "INVALID_SET_ITEMS")
            /\ UNCHANGED <<products, set_items>>
     ELSE /\ products' = [products EXCEPT ![pid] =
                Product(product_type, "n2", 1, 1, initial_stock)]
          /\ IF product_type = "set" /\ ~Storable(items)
               THEN /\ admin' = CreateResult(pid, product_type, items, "IntegrityError")
                    /\ UNCHANGED set_items
               ELSE /\ admin' = CreateResult(pid, product_type, items, "created")
                    /\ set_items' = IF product_type = "set" THEN set_items \o items
                                    ELSE set_items
  /\ UNCHANGED <<sales, rowLock, pc, cart, session, pending, idx, sub,
                 insufficient, outcome, before, callId, began, ncalls, calc, status,
                 kitchenVars>>

\* create_product under a fresh id: a set without set_items is refused; the
\* product is flushed, the set_items of a set are added and committed with
\* it; an IntegrityError rolls everything back
create_product(pid, product_type, initial_stock, items) ==
  /\ products[pid] = NoRow
  /\ nupdates' = nupdates + 1
  /\ IF product_type = "set" /\ items = << >>
       THEN /\ admin' = CreateResult(pid, product_type, items, "INVALID_SET_ITEMS")
            /\ UNCHANGED <<products, set_items>>
     ELSE IF product_type = "set" /\ ~Storable(items)
       THEN /\ admin' = CreateResult(pid, product_type, items, "IntegrityError")
            /\ UNCHANGED <<products, set_items>>
     ELSE /\ admin' = CreateResult(pid, product_type, items, "created")
          /\ products' = [products EXCEPT ![pid] =
                Product(product_type, "n2", 1, 1, initial_stock)]
          /\ set_items' = IF product_type = "set" THEN set_items \o items ELSE set_items
  /\ UNCHANGED <<sales, rowLock, pc, cart, session, pending, idx, sub,
                 insufficient, outcome, before, callId, began, ncalls, calc, status,
                 kitchenVars>>

\* the rows that hold a reference to product pid which the delete has to
\* null out: sale_items.product_id and set_items.item_product_id
ReferencedBySale(pid) ==
  \E n \in 1..Len(sales) : \E i \in 1..Len(sales[n].items) :
    sales[n].items[i].product_id = pid

ReferencedAsComponent(pid) ==
  \E i \in 1..Len(set_items) : set_items[i].item_product_id = pid

\* (a delete that takes the referencing composition entries with it)
delete_product_Cascading(pid) ==
  /\ rowLock[pid] = NoOne
  /\ nupdates' = nupdates + 1
  /\ IF products[pid] = NoRow
       THEN /\ admin' = DeleteResult(pid, "not_found")
            /\ UNCHANGED <<products, set_items>>
       ELSE /\ admin' = DeleteResult(pid, "deleted")
            /\ products' = [products EXCEPT ![pid] = NoRow]
            /\ set_items' = SelectSeq(set_items,
                 LAMBDA r : r.set_product_id # pid /\ r.item_product_id # pid)
  /\ UNCHANGED <<sales, rowLock, pc, cart, session, pending, idx, sub,
                 insufficient, outcome, before, callId, began, ncalls, calc, status,
                 kitchenVars>>

\* delete_product: False when there is no such product; the flush of the
\* delete nulls the referencing sale_items.product_id and
\* set_items.item_product_id, both NOT NULL, so a referenced product raises
\* IntegrityError and everything is rolled back; otherwise the row goes, and
\* with it the set_items the product owns as a set
delete_product(pid) ==
  /\ rowLock[pid] = NoOne
  /\ nupdates' = nupdates + 1
  /\ IF products[pid] = NoRow
       THEN /\ admin' = DeleteResult(pid, "not_found")
            /\ UNCHANGED <<products, set_items>>
     ELSE IF ReferencedBySale(pid) \/ ReferencedAsComponent(pid)
       THEN /\ admin' = DeleteResult(pid, "IntegrityError")
            /\ UNCHANGED <<products, set_items>>
     ELSE /\ admin' = DeleteResult(pid, "deleted")
          /\ products' = [products EXCEPT ![pid] = NoRow]
          /\ set_items' = SelectSeq(set_items, LAMBDA r : r.set_product_id # pid)
  /\ UNCHANGED <<sales, rowLock, pc, cart, session, pending, idx, sub,
                 insufficient, outcome, before, callId, began, ncalls, calc, status,
                 kitchenVars>>

\* ------------------------------------------------------------- initial state
CartLine(pid, q) == [product_id |-> pid, quantity |-> q]

\* the set S1 made of q1 x P1 and q2 x P2
Composition(q1, q2) == << SetItem("S1", "P1", q1), SetItem("S1", "P2", q2) >>

\* the store after the products were registered: two single products, one set
InitStore(s1, s2, composition) ==
  /\ products = [p \in AllIds |->
       IF p = "P1" THEN Product("single", "n1", 1, 2, s1)
       ELSE IF p = "P2" THEN Product("single", "n1", 1, 1, s2)
       ELSE IF p = "S1" THEN Product("set", "n1", 2, 2, 0)
       ELSE NoRow]
  /\ set_items = composition
  /\ sales = << >>
  /\ rowLock = [p \in AllIds |-> NoOne]
  /\ tickets = NoTickets

InitProcs ==
  /\ pc = [w \in Procs |-> "idle"]
  /\ cart = [w \in Procs |-> << >>]
  /\ session = [w \in Procs |-> EmptySession]
  /\ pending = [w \in Procs |-> NoPending]
  /\ idx = [w \in Procs |-> 1]
  /\ sub = [w \in Procs |-> 1]
  /\ insufficient = [w \in Procs |-> << >>]
  /\ outcome = [w \in Procs |-> NoOutcome]
  /\ before = [w \in Procs |-> NoBefore]
  /\ callId = [w \in Procs |-> 0]
  /\ began = [w \in Procs |-> 0]
  /\ ncalls = 0
  /\ nupdates = 0
  /\ calc = NoCalc
  /\ status = NoStatus
  /\ admin = NoAdmin
  /\ kitchen = [w \in Procs |-> NoKitchenCall]
  /\ listed = NoListed

\* ------------------------------------------------ concurrent checkout terminals
\* the carts of the terminals: one or two items of the registered products
ConcLines == {CartLine(p, q) : p \in {"P1", "S1"}, q \in 1..MaxQty}
                \cup {CartLine("P2", 1), CartLine("X0", 1)}
ConcCarts == {<<l>> : l \in ConcLines}
               \cup {<<CartLine("P2", 1), CartLine("P1", q)>> : q \in 1..MaxQty}

Init ==
  /\ \E s1 \in 0..MaxStock : InitStore(s1, 1, Composition(2, 1))
  /\ InitProcs

\* the steps of a checkout in progress
Checkout(w) ==
  \/ Resolve(w)
  \/ CheckStock(w)
  \/ RaiseInsufficient(w)
  \/ CreateSale(w)
  \/ Refresh(w)
  \/ Decrement(w)
  \/ Commit(w)
  \/ Return(w)

\* the product whose price and attributes are edited while the terminals sell
EditedIds == {"P1"}

Next ==
  \/ \E w \in Workers : \E c \in ConcCarts : ncalls < MaxCalls /\ StartCheckout(w, c)
  \/ \E w \in Workers : Checkout(w)
  \/ \E p \in EditedIds : \E v \in 1..MaxPrice :
       nupdates < MaxUpdates /\ update_price(p, v)
  \/ \E p \in EditedIds : \E u \in Updates :
       nupdates < MaxUpdates /\ update_product(p, u)

Spec == Init /\ [][Next]_vars

\* ------------------------------------------------- one terminal, one checkout
SeqWorker == Attempts + 1

SeqLines == {CartLine(p, q) : p \in AllIds, q \in 1..MaxQty}
SeqCarts == UNION {[1..n -> SeqLines] : n \in 1..MaxLines}

InitSeq ==
  /\ \E s1, s2 \in 0..MaxStock : \E q1 \in 1..MaxQty :
       InitStore(s1, s2, Composition(q1, 1))
  /\ InitProcs

NextSeq ==
  \/ \E c \in SeqCarts : ncalls < 1 /\ StartCheckout(SeqWorker, c)
  \/ Checkout(SeqWorker)
  \/ \E p \in ProductIds : \E v \in 1..MaxPrice :
       nupdates < MaxUpdates /\ update_price(p, v)
  \/ \E p \in ProductIds : \E u \in Updates :
       nupdates < MaxUpdates /\ update_product(p, u)

SpecSeq == InitSeq /\ [][NextSeq]_vars

\* ------------------------------------- one terminal, one request to the API
\* request bodies: no item, or up to MaxLines items with a quantity that is
\* negative, 0 or positive
ApiLines == {CartLine(p, q) : p \in AllIds, q \in (0 - MaxQty)..MaxQty}
ApiCarts == {<< >>} \cup UNION {[1..n -> ApiLines] : n \in 1..MaxLines}

NextApi ==
  \/ \E c \in ApiCarts : ncalls < 1 /\ checkout(SeqWorker, c)
  \/ Checkout(SeqWorker)

SpecApi == InitSeq /\ [][NextApi]_vars

\* ---------------------------- products are created, then one terminal sells
\* the id the created product gets
NewId == "X0"

\* P1 and the set S1 = 1 x P1 are registered, S1 with any initial_stock the
\* creation request allows; P2 and NewId have no row
InitNested ==
  /\ \E s1, s \in 0..MaxStock :
       products = [p \in AllIds |->
         IF p = "P1" THEN Product("single", "n1", 1, 2, s1)
         ELSE IF p = "S1" THEN Product("set", "n1", 2, 2, s)
         ELSE NoRow]
  /\ set_items = << SetItem("S1", "P1", 1) >>
  /\ sales = << >>
  /\ rowLock = [p \in AllIds |-> NoOne]
  /\ tickets = NoTickets
  /\ InitProcs

NestedLines == {CartLine(p, q) : p \in {"P1", "S1", NewId}, q \in 1..MaxQty}
NestedCarts == UNION {[1..n -> NestedLines] : n \in 1..MaxLines}

NextNested ==
  \/ \E t \in {"single", "set"} : \E i \in 0..MaxStock : \E items \in RequestedItems(NewId) :
       nupdates < MaxUpdates /\ create_product(NewId, t, i, items)
  \/ \E c \in NestedCarts : ncalls < 1 /\ StartCheckout(SeqWorker, c)
  \/ Checkout(SeqWorker)

SpecNested == InitNested /\ [][NextNested]_vars

\* ------------------- products are created and deleted between the checkouts
\* of one terminal
NextAdmin ==
  \/ \E c \in ConcCarts : ncalls < MaxCalls /\ StartCheckout(SeqWorker, c)
  \/ Checkout(SeqWorker)
  \/ \E t \in {"single", "set"} : \E i \in 0..MaxStock : \E items \in RequestedItems(NewId) :
       /\ nupdates < MaxUpdates + 1 /\ pc[SeqWorker] = "idle"
       /\ create_product(NewId, t, i, items)
  \/ \E pid \in AllIds :
       /\ nupdates < MaxUpdates + 1 /\ pc[SeqWorker] = "idle"
       /\ delete_product(pid)

SpecAdmin == InitNested /\ [][NextAdmin]_vars

\* ------------------------------------------------------------ kitchen tickets
Users == {"u1", "u2"}

\* datetime.utcnow() of a complete_ticket call: later calls read later times
utcnow == 1 + SumSeq([i \in 1..Cardinality(Workers) |-> kitchen[Attempts + i].n])

get_ticket_by_id(ticket_id) == tickets[ticket_id]

\* the ticket ids in use, and the ticket of a sale (0 when there is none)
TicketRows == {k \in TicketIds : tickets[k].sale_id # 0}
get_ticket_by_sale_id(sale_id) ==
  IF \E k \in TicketRows : tickets[k].sale_id = sale_id
    THEN CHOOSE k \in TicketRows : tickets[k].sale_id = sale_id
    ELSE 0

\* SELECT sale_id FROM kitchen_tickets WHERE completed_at IS NULL
get_incomplete_sale_ids == {tickets[k].sale_id : k \in {j \in TicketRows : tickets[j].completed_at = 0}}

\* KitchenTicketRepository.create_ticket and its caller's commit: a row for a
\* sale that exists (foreign key) and has no ticket yet (unique_sale_ticket).
\* No request handler reaches it for a sale without ticket; the fixtures of
\* the tests do.
create_ticket(sale_id) ==
  /\ sale_id \in 1..Len(sales)
  /\ get_ticket_by_sale_id(sale_id) = 0
  /\ Cardinality(TicketRows) < MaxTickets
  /\ LET k == CHOOSE j \in 1..MaxTickets :
                 j \notin TicketRows /\ \A i \in 1..MaxTickets : i \notin TicketRows => j <= i
     IN tickets' = [tickets EXCEPT ![k] = [NoTicket EXCEPT !.sale_id = sale_id]]
  /\ UNCHANGED <<products, set_items, sales, rowLock, pc, cart, session, pending, idx, sub,
                 insufficient, outcome, before, callId, began, ncalls, nupdates, calc,
                 status, admin, kitchen, listed>>

\* the UPDATE of a ticket row waits while another transaction has updated the
\* row and not yet committed
TicketFree(w, ticket_id) ==
  \A v \in Workers \ {w} : ~(kitchen[v].pc = "commit" /\ kitchen[v].ticket_id = ticket_id)

\* (a completion that does not look at completed_at)
AlreadyCompleted_Unchecked(ticket) == FALSE

\* step 2 of complete_ticket: ticket.completed_at is not None
AlreadyCompleted(ticket) == ticket.completed_at # 0

\* complete_ticket, steps 1 to 3 up to the call of mark_as_completed: the
\* ticket is read without lock, the two checks raise, the clock is read
GetTicket(w, ticket_id, completed_by) ==
  /\ kitchen[w].pc = "idle"
  /\ LET ticket == get_ticket_by_id(ticket_id)
         call == [kitchen[w] EXCEPT !.n = @ + 1, !.ticket_id = ticket_id,
                                    !.completed_by = completed_by, !.completed_at = 0]
     IN kitchen' = [kitchen EXCEPT ![w] =
          IF ticket.sale_id = 0
            THEN [call EXCEPT !.pc = "done", !.result = "TicketNotFoundError"]
          ELSE IF AlreadyCompleted(ticket)
            THEN [call EXCEPT !.pc = "done", !.result = "TicketAlreadyCompletedError"]
          ELSE [call EXCEPT !.pc = "mark", !.result = "none", !.completed_at = utcnow]]
  /\ UNCHANGED <<products, set_items, sales, rowLock, pc, cart, session, pending, idx, sub,
                 insufficient, outcome, before, callId, began, ncalls, nupdates, calc,
                 status, admin, tickets, listed>>

\* KitchenTicketRepository.mark_as_completed: the row is selected again, the
\* two attributes are set and flushed; nothing is compared
mark_as_completed(w) ==
  /\ kitchen[w].pc = "mark"
  /\ TicketFree(w, kitchen[w].ticket_id)
  /\ kitchen' = [kitchen EXCEPT ![w].pc = "commit"]
  /\ UNCHANGED <<products, set_items, sales, rowLock, pc, cart, session, pending, idx, sub,
                 insufficient, outcome, before, callId, began, ncalls, nupdates, calc,
                 status, admin, tickets, listed>>

\* step 4 of complete_ticket: db.commit(), the response is built
CommitTicket(w) ==
  /\ kitchen[w].pc = "commit"
  /\ tickets' = [tickets EXCEPT ![kitchen[w].ticket_id] =
       [@ EXCEPT !.completed_at = kitchen[w].completed_at,
                 !.completed_by = kitchen[w].completed_by]]
  /\ kitchen' = [kitchen EXCEPT ![w].pc = "done", ![w].result = "ok"]
  /\ UNCHANGED <<products, set_items, sales, rowLock, pc, cart, session, pending, idx, sub,
                 insufficient, outcome, before, callId, began, ncalls, nupdates, calc,
                 status, admin, listed>>

\* the response of complete_ticket is sent
KitchenReturn(w) ==
  /\ kitchen[w].pc = "done"
  /\ kitchen' = [kitchen EXCEPT ![w].pc = "idle"]
  /\ UNCHANGED <<products, set_items, sales, rowLock, pc, cart, session, pending, idx, sub,
                 insufficient, outcome, before, callId, began, ncalls, nupdates, calc,
                 status, admin, tickets, listed>>

complete_ticket(w) == mark_as_completed(w) \/ CommitTicket(w) \/ KitchenReturn(w)

\* _get_product_name_by_id: the product_name of some sale item of the product
\* (LIMIT 1 without ORDER BY), else the name in products, else a fallback
ProductNames(pid) ==
  LET sold == UNION {{sales[n].items[i].product_name :
                        i \in {j \in 1..Len(sales[n].items) :
                                 sales[n].items[j].product_id = pid}} :
                     n \in 1..Len(sales)}
  IN IF sold # {} THEN sold
     ELSE IF products[pid] # NoRow THEN {products[pid].name}
     ELSE {"Unknown Product"}

\* one ticket item: a product that has set_items is shown as a set with its
\* components, any other as a single product
KitchenTicketItems(item, name) ==
  LET composition == get_by_set_product_id(item.product_id) IN
  IF composition # << >>
    THEN [product_name |-> item.product_name, product_type |-> "set",
          quantity |-> item.quantity,
          components |-> [i \in 1..Len(composition) |->
             [name |-> name[composition[i].item_product_id],
              quantity |-> composition[i].quantity * item.quantity]]]
    ELSE [product_name |-> item.product_name, product_type |-> "single",
          quantity |-> item.quantity, components |-> << >>]

\* the sales of the incomplete tickets, oldest first
IncompleteSales == SelectSeq([n \in 1..Len(sales) |-> n], LAMBDA n : n \in get_incomplete_sale_ids)

\* get_active_tickets: the sales of the tickets with completed_at IS NULL,
\* sorted by timestamp, each with its ticket id and its items
get_active_tickets ==
  /\ listed.n < MaxQueries
  /\ \E name \in [ProductIds -> Names \cup {"Unknown Product"}] :
       /\ \A p \in ProductIds : name[p] \in ProductNames(p)
       /\ listed' = [n |-> listed.n + 1,
                     result |-> [i \in 1..Len(IncompleteSales) |->
                        [id |-> get_ticket_by_sale_id(IncompleteSales[i]),
                         sale_id |-> IncompleteSales[i],
                         items |-> [j \in 1..Len(sales[IncompleteSales[i]].items) |->
                            KitchenTicketItems(sales[IncompleteSales[i]].items[j], name)]]]]
  /\ UNCHANGED <<products, set_items, sales, rowLock, pc, cart, session, pending, idx, sub,
                 insufficient, outcome, before, callId, began, ncalls, nupdates, calc,
                 status, admin, tickets, kitchen>>

\* one terminal sells; between its checkouts the kitchen display lists and
\* two kitchen users complete tickets, MaxCalls calls in all
KitchenCarts == {<<CartLine("P1", 1)>>, <<CartLine("S1", 1)>>}

InitKitchen ==
  /\ InitStore(MaxStock, 1, Composition(1, 1))
  /\ InitProcs

Selling == pc[SeqWorker] \notin {"idle", "done"}

NextKitchen ==
  \/ \E c \in KitchenCarts : ncalls < MaxCalls /\ StartCheckout(SeqWorker, c)
  \/ Checkout(SeqWorker)
  \/ \E sale_id \in 1..MaxTickets : ~Selling /\ create_ticket(sale_id)
  \/ \E w \in Workers : \E k \in TicketIds : \E u \in Users :
       /\ ~Selling /\ utcnow <= MaxCalls
       /\ GetTicket(w, k, u)
  \/ \E w \in Workers : ~Selling /\ complete_ticket(w)
  \/ ~Selling /\ get_active_tickets

SpecKitchen == InitKitchen /\ [][NextKitchen]_vars

\* ------------------------------- bare decrement transactions on one product
\* decrement_stock(P1, 1) in a session of its own: lock, check, write
DecrementTxn(t) ==
  /\ pc[t] = "idle"
  /\ with_for_update(t, "P1")
  /\ LET obj == LockedObject(t, "P1") IN
     IF SufficientStock(obj.current_stock, 1)
       THEN /\ pending' = [pending EXCEPT ![t]["P1"] = obj.current_stock - 1]
            /\ pc' = [pc EXCEPT ![t] = "decremented"]
            /\ UNCHANGED outcome
       ELSE /\ outcome' = [outcome EXCEPT ![t] =
                 [kind |-> "LedgerInsufficientStock", product_id |-> "P1",
                  requested |-> 1, available |-> obj.current_stock]]
            /\ pc' = [pc EXCEPT ![t] = "raised"]
            /\ UNCHANGED pending
  /\ rowLock' = [rowLock EXCEPT !["P1"] = t]
  /\ UNCHANGED <<products, set_items, sales, cart, session, idx, sub, insufficient,
                 before, callId, began, ncalls, nupdates, calc, status, admin, kitchenVars>>

\* thread_session.commit()
CommitTxn(t) ==
  /\ pc[t] = "decremented"
  /\ products' = CommitRows(t)
  /\ rowLock' = ReleaseLocks(t)
  /\ pending' = [pending EXCEPT ![t] = NoPending]
  /\ outcome' = [outcome EXCEPT ![t] =
       [kind |-> "ok", product_id |-> "-", requested |-> 0, available |-> 0]]
  /\ pc' = [pc EXCEPT ![t] = "done"]
  /\ UNCHANGED <<set_items, sales, cart, session, idx, sub, insufficient,
                 before, callId, began, ncalls, nupdates, calc, status, admin, kitchenVars>>

\* thread_session.rollback()
RollbackTxn(t) ==
  /\ pc[t] = "raised"
  /\ rowLock' = ReleaseLocks(t)
  /\ pending' = [pending EXCEPT ![t] = NoPending]
  /\ pc' = [pc EXCEPT ![t] = "done"]
  /\ UNCHANGED <<products, set_items, sales, cart, session, idx, sub, insufficient,
                 outcome, before, callId, began, ncalls, nupdates, calc, status, admin, kitchenVars>>

InitDec ==
  /\ \E s1, s2 \in 0..MaxStock : InitStore(s1, s2, Composition(1, 1))
  /\ InitProcs

NextDec == \E t \in Txns : DecrementTxn(t) \/ CommitTxn(t) \/ RollbackTxn(t)

SpecDec == InitDec /\ [][NextDec]_vars

\* --------------------------- bare decrement transactions, any product, any q
\* decrement_stock(pid, q) in a session of its own: SELECT ... FOR UPDATE,
\* ValueError when there is no row, the stock check, the write and flush
decrement_stock(t, pid, q) ==
  /\ pc[t] = "idle"
  /\ with_for_update(t, pid)
  /\ cart' = [cart EXCEPT ![t] = << CartLine(pid, q) >>]
  /\ before' = [before EXCEPT ![t] = products]
  /\ LET product == LockedObject(t, pid) IN
     IF products[pid] = NoRow
       THEN /\ outcome' = [outcome EXCEPT ![t] =
                 [kind |-> "ValueError", product_id |-> pid,
                  requested |-> q, available |-> 0]]
            /\ pc' = [pc EXCEPT ![t] = "raised"]
            /\ UNCHANGED <<pending, rowLock>>
       ELSE /\ rowLock' = [rowLock EXCEPT ![pid] = t]
            /\ IF SufficientStock(product.current_stock, q)
                 THEN /\ pending' = [pending EXCEPT ![t][pid] = product.current_stock - q]
                      /\ pc' = [pc EXCEPT ![t] = "decremented"]
                      /\ UNCHANGED outcome
                 ELSE /\ outcome' = [outcome EXCEPT ![t] =
                           [kind |-> "LedgerInsufficientStock", product_id |-> pid,
                            requested |-> q, available |-> product.current_stock]]
                      /\ pc' = [pc EXCEPT ![t] = "raised"]
                      /\ UNCHANGED pending
  /\ UNCHANGED <<products, set_items, sales, session, idx, sub, insufficient,
                 callId, began, ncalls, nupdates, calc, status, admin, kitchenVars>>

\* the quantities asked for: up to one more than any stock
LedgerQuantities == 1..(MaxStock + 1)

NextLedger ==
  \/ \E t \in Txns : \E pid \in SingleIds \cup UnknownIds : \E q \in LedgerQuantities :
       decrement_stock(t, pid, q)
  \/ \E t \in Txns : CommitTxn(t)
  \/ \E t \in Txns : RollbackTxn(t)

SpecLedger == InitDec /\ [][NextLedger]_vars

\* ------------------------------------------ InventoryService.calculate_set_stock
MinOfSeq(q) == CHOOSE m \in {q[i] : i \in 1..Len(q)} : \A j \in 1..Len(q) : m <= q[j]

\* (the component stock taken as the number of sets)
available_Undivided(current_stock, quantity) == current_stock

\* how many sets one component allows
available(current_stock, quantity) == current_stock \div quantity

\* the loop over set_items: 0 at the first component that does not exist
RECURSIVE available_stocks(_, _)
available_stocks(items, acc) ==
  IF items = << >> THEN (IF acc = << >> THEN 0 ELSE MinOfSeq(acc))
  ELSE LET item_product == products[Head(items).item_product_id] IN
       IF item_product = NoRow THEN 0
       ELSE available_stocks(Tail(items),
              Append(acc, available(item_product.current_stock, Head(items).quantity)))

calculate_set_stock(sid) ==
  LET items == get_by_set_product_id(sid) IN
  IF items = << >> THEN 0 ELSE available_stocks(items, << >>)

CalculateSetStock(sid) ==
  /\ calc = NoCalc
  /\ calc' = [set_product_id |-> sid, result |-> calculate_set_stock(sid)]
  /\ UNCHANGED <<products, set_items, sales, rowLock, pc, cart, session, pending,
                 idx, sub, insufficient, outcome, before, callId, began, ncalls,
                 nupdates, status, admin, kitchenVars>>

\* --------------------------------------- InventoryService.get_inventory_status
\* (a status that reports the stored current_stock of a set)
ProductInventory_Stored(p) ==
  [product_type |-> products[p].product_type,
   current_stock |-> products[p].current_stock,
   initial_stock |-> products[p].initial_stock,
   stock_rate |-> IF products[p].initial_stock > 0
                    THEN <<products[p].current_stock, products[p].initial_stock>>
                    ELSE <<0, 1>>,
   is_out_of_stock |-> products[p].current_stock = 0]

\* one element of inventory_status; stock_rate as <<numerator, denominator>>
ProductInventory(p) ==
  LET current_stock ==
        IF products[p].product_type = "single" THEN products[p].current_stock
        ELSE IF products[p].product_type = "set" THEN calculate_set_stock(p)
        ELSE 0
  IN [product_type |-> products[p].product_type,
      current_stock |-> current_stock,
      initial_stock |-> products[p].initial_stock,
      stock_rate |-> IF products[p].initial_stock > 0
                       THEN <<current_stock, products[p].initial_stock>>
                       ELSE <<0, 1>>,
      is_out_of_stock |-> current_stock = 0]

\* (a status that shows the writes a checkout has flushed but not committed)
get_inventory_status_Dirty ==
  [p \in AllIds |->
     IF products[p] = NoRow THEN NoInventory
     ELSE IF \E w \in Workers : pending[w][p] # NoVal
       THEN [ProductInventory(p) EXCEPT
               !.current_stock = pending[CHOOSE w \in Workers : pending[w][p] # NoVal][p]]
       ELSE ProductInventory(p)]

\* get_all, then one ProductInventory per product row
get_inventory_status ==
  [p \in AllIds |-> IF products[p] = NoRow THEN NoInventory ELSE ProductInventory(p)]

\* GET inventory status, in a session of its own: reads the committed rows
GetInventoryStatus ==
  /\ status' = [n |-> status.n + 1, result |-> get_inventory_status,
                read |-> <<products, set_items>>]
  /\ UNCHANGED <<products, set_items, sales, rowLock, pc, cart, session, pending,
                 idx, sub, insufficient, outcome, before, callId, began, ncalls,
                 nupdates, calc, admin, kitchenVars>>

\* ------------------- one terminal sells, the inventory status is queried
NextInventory ==
  \/ \E c \in ConcCarts : ncalls < MaxCalls /\ StartCheckout(SeqWorker, c)
  \/ Checkout(SeqWorker)
  \/ status.n < MaxQueries /\ GetInventoryStatus

SpecInventory == InitSeq /\ [][NextInventory]_vars

\* compositions of S1 of up to two entries, a component possibly without a row
Compositions ==
  {<< >>}
    \cup {<< SetItem("S1", "P1", q) >> : q \in 1..MaxQty}
    \cup {<< SetItem("S1", a, q1), SetItem("S1", b, q2) >> :
            a \in {"P1", "X0"}, b \in {"P2", "X0"}, q1 \in 1..MaxQty, q2 \in 1..MaxQty}

InitCalc ==
  /\ \E s1, s2 \in 0..MaxComponentStock : \E comp \in Compositions : InitStore(s1, s2, comp)
  /\ InitProcs

NextCalc == CalculateSetStock("S1")

SpecCalc == InitCalc /\ [][NextCalc]_vars

\* --------------------------- two checkouts that lock rows in opposite orders
\* the SELECT ... FOR UPDATE of w's next decrement_stock waits for a row that
\* transaction v has locked
WaitsFor(w, v) ==
  /\ w # v
  /\ pc[w] = "decrement"
  /\ session[w][Line(w).product_id].state = "loaded"
  /\ ~Target(w).none
  /\ rowLock[Target(w).id] = v

\* a cycle of lock waits, which the database's deadlock detector finds
Deadlocked(w) == \E v \in Workers : WaitsFor(w, v) /\ WaitsFor(v, w)

\* the detector aborts one transaction of the cycle: its SELECT ... FOR
\* UPDATE raises, process_checkout rolls back and re-raises
DeadlockAbort(w) ==
  /\ Deadlocked(w)
  /\ rowLock' = ReleaseLocks(w)
  /\ pending' = [pending EXCEPT ![w] = NoPending]
  /\ session' = [session EXCEPT ![w] = EmptySession]
  /\ outcome' = [outcome EXCEPT ![w] =
       [kind |-> "DeadlockDetected", product_id |-> Target(w).id,
        requested |-> Target(w).qty, available |-> 0]]
  /\ pc' = [pc EXCEPT ![w] = "done"]
  /\ UNCHANGED <<products, set_items, sales, cart, idx, sub, insufficient, before, callId,
                 began, ncalls, nupdates, calc, status, admin, kitchenVars>>

OrderCarts ==
  {<<CartLine("P1", 1), CartLine("P2", 1)>>, <<CartLine("P2", 1), CartLine("P1", 1)>>,
   <<CartLine("S1", 1)>>, <<CartLine("P2", 1)>>}

InitOrder ==
  /\ \E s1, s2 \in 1..MaxStock : InitStore(s1, s2, Composition(1, 1))
  /\ InitProcs

NextOrder ==
  \/ \E w \in Workers : \E c \in OrderCarts : ncalls < MaxCalls /\ StartCheckout(w, c)
  \/ \E w \in Workers : Checkout(w)
  \/ \E w \in Workers : DeadlockAbort(w)

SpecOrder == InitOrder /\ [][NextOrder]_vars

\* ------------------- one checkout of a set and the derived stock of that set
AvailCarts == {<<CartLine("S1", q)>> : q \in 1..MaxQty}

NextAvail ==
  \/ \E c \in AvailCarts : ncalls < 1 /\ StartCheckout(SeqWorker, c)
  \/ Checkout(SeqWorker)
  \/ CalculateSetStock("S1")

SpecAvail == InitCalc /\ [][NextAvail]_vars

\* ===================================================================== claims
Failed(w) == pc[w] = "done" /\ outcome[w].kind # "ok"
Succeeded(w) == pc[w] = "done" /\ outcome[w].kind = "ok"
SalesOfCall(n) == {i \in 1..Len(sales) : sales[i].call = n}
StockShortKinds == {"InsufficientStock", "LedgerInsufficientStock"}

\* C1: a checkout that failed, for whatever reason, leaves no sale of that
\* call in the store and, when it was the only call made, every product's
\* current_stock as it was before the call.
C1_FailedCheckoutLeavesNoTrace ==
  \A w \in Workers :
    Failed(w) =>
      /\ SalesOfCall(callId[w]) = {}
      /\ pending[w] = NoPending
      /\ ncalls = 1 =>
           \A p \in ProductIds : products[p].current_stock = before[w][p].current_stock

\* C2: two concurrent checkouts of the same single product, each covered by
\* the stock alone but not both together: exactly one succeeds, the other
\* fails for insufficient stock, and the stock ends at the initial stock
\* minus the winner's quantity.
C2_Contended(a, b) ==
  /\ a # b /\ pc[a] = "done" /\ pc[b] = "done"
  /\ Len(cart[a]) = 1 /\ Len(cart[b]) = 1
  /\ cart[a][1].product_id = "P1" /\ cart[b][1].product_id = "P1"
  /\ before[a]["P1"].current_stock = before[b]["P1"].current_stock
  /\ cart[a][1].quantity <= before[a]["P1"].current_stock
  /\ cart[b][1].quantity <= before[a]["P1"].current_stock
  /\ cart[a][1].quantity + cart[b][1].quantity > before[a]["P1"].current_stock

C2_ExactlyOneWinner ==
  \A a, b \in Workers :
    C2_Contended(a, b) =>
      \E win, lose \in {a, b} :
        /\ win # lose
        /\ outcome[win].kind = "ok"
        /\ outcome[lose].kind \in StockShortKinds
        /\ products["P1"].current_stock =
             before[a]["P1"].current_stock - cart[win][1].quantity

\* C4: the current_stock of every product is at least 0, in the committed
\* rows and in the rows a transaction has flushed.
C4_StockNeverNegative ==
  /\ \A p \in ProductIds : products[p].current_stock >= 0
  /\ \A w \in Procs : \A p \in ProductIds :
       pending[w][p] # NoVal => pending[w][p] >= 0

\* two checkouts went through against the same product and emptied it
C4_Witness ==
  /\ Len(sales) = 2
  /\ products["P1"].initial_stock > 0
  /\ products["P1"].current_stock = 0
  /\ \A w \in Workers : pc[w] = "done" /\ outcome[w].kind = "ok"

\* the units of base product p that item l of a cart requires: its quantity
\* when it sells p directly, perSetQty x quantity for each composition entry
\* of the set it sells that names p
NeedOfLine(l, p) ==
  LET entries == {i \in 1..Len(set_items) :
                    /\ set_items[i].set_product_id = l.product_id
                    /\ set_items[i].item_product_id = p}
      RECURSIVE Over(_)
      Over(S) == IF S = {} THEN 0
                 ELSE LET i == CHOOSE x \in S : TRUE
                      IN set_items[i].quantity * l.quantity + Over(S \ {i})
  IN IF products[l.product_id].product_type = "single"
       THEN (IF l.product_id = p THEN l.quantity ELSE 0)
       ELSE IF products[l.product_id].product_type = "set" THEN Over(entries)
       ELSE 0

RECURSIVE Need(_, _)
Need(c, p) == IF c = << >> THEN 0 ELSE NeedOfLine(Head(c), p) + Need(Tail(c), p)

AllKnown(c) == \A i \in 1..Len(c) : products[c[i].product_id] # NoRow

\* C5: availability is decided on the per-product sum over all items of the
\* cart: when the sum exceeds some product's stock the checkout fails with
\* InsufficientStock and no stock changes; when every sum is covered and one
\* equals the stock, the checkout succeeds and leaves that stock at 0.
C5_AvailabilityOnSums ==
  \A w \in Workers :
    (pc[w] = "done" /\ AllKnown(cart[w])) =>
      /\ (\E p \in ProductIds : Need(cart[w], p) > before[w][p].current_stock) =>
           /\ outcome[w].kind = "InsufficientStock"
           /\ \A p \in ProductIds :
                products[p].current_stock = before[w][p].current_stock
      /\ (\A p \in ProductIds : Need(cart[w], p) <= before[w][p].current_stock) =>
           /\ outcome[w].kind = "ok"
           /\ \A p \in ProductIds :
                (Need(cart[w], p) = before[w][p].current_stock) =>
                   products[p].current_stock = 0

\* C6: after a successful checkout every product's current_stock is its
\* value before the call minus what the cart requires of it; a product the
\* cart does not require keeps its stock.
C6_StockDecreasedByNeed ==
  \A w \in Workers :
    Succeeded(w) =>
      \A p \in ProductIds :
        products[p].current_stock = before[w][p].current_stock - Need(cart[w], p)

\* a cart that sold P1 directly and through the set went through
C6_Witness ==
  \E w \in Workers :
    /\ Succeeded(w)
    /\ \E i, j \in 1..Len(cart[w]) :
         cart[w][i].product_id = "P1" /\ cart[w][j].product_id = "S1"
    /\ products["P1"].current_stock < before[w]["P1"].current_stock
    /\ products["P2"].current_stock < before[w]["P2"].current_stock

RECURSIVE SubtotalsFrom(_, _)
SubtotalsFrom(items, i) ==
  IF i > Len(items) THEN 0 ELSE items[i].subtotal + SubtotalsFrom(items, i + 1)

\* C7: every persisted sale has total_amount equal to the sum of its items'
\* subtotals and each subtotal equal to sale_price x quantity; the sale of a
\* successful checkout has one item per cart item, in cart order, and is the
\* only sale of that call.
C7_SaleConservation ==
  /\ \A n \in 1..Len(sales) :
       /\ sales[n].total_amount = SubtotalsFrom(sales[n].items, 1)
       /\ \A i \in 1..Len(sales[n].items) :
            sales[n].items[i].subtotal =
              sales[n].items[i].sale_price * sales[n].items[i].quantity
  /\ \A w \in Workers :
       Succeeded(w) =>
         /\ Cardinality(SalesOfCall(callId[w])) = 1
         /\ \A n \in SalesOfCall(callId[w]) :
              /\ Len(sales[n].items) = Len(cart[w])
              /\ \A i \in 1..Len(cart[w]) :
                   /\ sales[n].items[i].product_id = cart[w][i].product_id
                   /\ sales[n].items[i].quantity = cart[w][i].quantity

\* a successful checkout of two items, one of them with quantity above 1
C7_Witness ==
  \E w \in Workers :
    /\ Succeeded(w)
    /\ Len(cart[w]) = 2
    /\ \E i \in 1..2 : cart[w][i].quantity > 1
    /\ \E n \in SalesOfCall(callId[w]) : sales[n].total_amount > 2

\* C10: whenever the availability check found the cart unavailable, the
\* checkout fails with InsufficientStock for the first insufficient product,
\* with a requested quantity and the product's current stock.
C10_UnavailableRaisesInsufficientStock ==
  \A w \in Workers :
    (pc[w] = "done" /\ insufficient[w] # << >>) =>
      /\ outcome[w].kind = "InsufficientStock"
      /\ outcome[w].product_id = insufficient[w][1]
      /\ outcome[w].requested >= 1
      /\ outcome[w].available = products[insufficient[w][1]].current_stock

\* C3: once every decrement transaction that ran has ended, the stock is the
\* initial stock minus the number of successful decrements, and the number
\* of failed ones is max(0, attempts - initial stock).
C3_Ran == {t \in Txns : pc[t] # "idle"}

C3_DecrementsAreSerialised ==
  (\A t \in C3_Ran : pc[t] = "done") =>
     LET S == products["P1"].initial_stock
         ok == {t \in C3_Ran : outcome[t].kind = "ok"}
         failed == {t \in C3_Ran : outcome[t].kind = "LedgerInsufficientStock"}
         attempts == Cardinality(C3_Ran)
     IN /\ ok \cup failed = C3_Ran
        /\ products["P1"].current_stock = S - Cardinality(ok)
        /\ Cardinality(failed) = (IF attempts > S THEN attempts - S ELSE 0)

\* as many attempts as there was stock, all ended, the stock is 0
C3_Witness ==
  /\ Cardinality(C3_Ran) >= 2
  /\ Cardinality(C3_Ran) = products["P1"].initial_stock
  /\ \A t \in C3_Ran : pc[t] = "done" /\ outcome[t].kind = "ok"
  /\ products["P1"].current_stock = 0

\* C8: a persisted sale never changes: every step keeps each sale and its
\* items as they are; and the sale of a checkout during which no product was
\* edited carries the products' current name, unit cost and sale price.
C8_Step ==
  /\ Len(sales') >= Len(sales)
  /\ \A n \in 1..Len(sales) : sales'[n] = sales[n]
  /\ \A n \in (Len(sales) + 1)..Len(sales') :
       \A w \in Workers :
         (callId[w] = sales'[n].call /\ began[w] = nupdates) =>
            \A i \in 1..Len(sales'[n].items) :
              LET it == sales'[n].items[i] IN
                /\ it.sale_price = products[it.product_id].sale_price
                /\ it.unit_cost = products[it.product_id].unit_cost
                /\ it.product_name = products[it.product_id].name

C8_SalesImmutable == [][C8_Step]_vars

\* P1 was sold, its price changed, it was sold again: the first sale keeps
\* the old price, the second has the new one
C8_Witness ==
  /\ Len(sales) = 2
  /\ sales[1].items[1].product_id = "P1"
  /\ sales[2].items[1].product_id = "P1"
  /\ sales[1].items[1].sale_price # products["P1"].sale_price
  /\ sales[2].items[1].sale_price = products["P1"].sale_price

\* C9: calculate_set_stock is the minimum over the composition entries of
\* floor(component stock / perSetQuantity), and 0 for a set without entries
\* or with a component that does not exist.
C9_Entries == {i \in 1..Len(set_items) : set_items[i].set_product_id = calc.set_product_id}

C9_Ratio(i) ==
  products[set_items[i].item_product_id].current_stock \div set_items[i].quantity

C9_SetStockIsBottleneck ==
  calc # NoCalc =>
    IF C9_Entries = {} \/ \E i \in C9_Entries : products[set_items[i].item_product_id] = NoRow
      THEN calc.result = 0
      ELSE /\ \E i \in C9_Entries : calc.result = C9_Ratio(i)
           /\ \A i \in C9_Entries : calc.result <= C9_Ratio(i)

\* two components, the one with the larger stock is the bottleneck
C9_Witness ==
  /\ calc # NoCalc /\ Len(set_items) = 2
  /\ products["P1"].current_stock > products["P2"].current_stock
  /\ set_items[1].item_product_id = "P1" /\ set_items[2].item_product_id = "P2"
  /\ calc.result = 1
  /\ calc.result = C9_Ratio(1) /\ C9_Ratio(2) > 1

\* C11: a checkout that resolved its products and passed the availability
\* check, and whose locked decrement then found the stock short, ends in the
\* domain error InsufficientStock with product, requested and available,
\* answered as INSUFFICIENT_STOCK like an availability failure.
C11_PastCheck(w) ==
  /\ Failed(w)
  /\ AllKnown(cart[w])
  /\ insufficient[w] = << >>

C11_LedgerShortIsInsufficientStock ==
  \A w \in Workers :
    C11_PastCheck(w) =>
      /\ outcome[w].kind = "InsufficientStock"
      /\ outcome[w].requested > outcome[w].available
      /\ checkout_response(outcome[w]).status_code = 400
      /\ checkout_response(outcome[w]).error_code = "INSUFFICIENT_STOCK"

\* the index of the first cart item whose product does not exist, 0 if none
C12_FirstUnknown(c) ==
  IF AllKnown(c) THEN 0
  ELSE CHOOSE i \in 1..Len(c) :
         /\ products[c[i].product_id] = NoRow
         /\ \A j \in 1..(i - 1) : products[c[j].product_id] # NoRow

\* C12: a checkout whose cart names a product that does not exist ends in
\* ProductNotFound with that product id, answered 404, with the availability
\* check not run, no stock changed and no sale created.
C12_UnknownProductIsNotFound ==
  \A w \in Workers :
    (pc[w] = "done" /\ ~AllKnown(cart[w])) =>
      /\ outcome[w].kind \in CaughtProductNotFound
      /\ outcome[w].product_id = cart[w][C12_FirstUnknown(cart[w])].product_id
      /\ checkout_response(outcome[w]).status_code = 404
      /\ insufficient[w] = << >>
      /\ SalesOfCall(callId[w]) = {}
      /\ \A p \in ProductIds : products[p].current_stock = before[w][p].current_stock

\* C13: a request with no item, or with an item whose quantity is not
\* positive, is rejected as invalid input: no product is looked up, no stock
\* changes and no sale is created.
C13_Invalid(c) == c = << >> \/ \E i \in 1..Len(c) : c[i].quantity < 1

C13_InvalidInputRejected ==
  \A w \in Workers :
    (pc[w] # "idle" /\ C13_Invalid(cart[w])) =>
      /\ pc[w] = "done"
      /\ outcome[w].kind = "RequestValidationError"
      /\ checkout_response(outcome[w]).status_code = 422
      /\ session[w] = EmptySession
      /\ insufficient[w] = << >>
      /\ sales = << >>
      /\ rowLock = [p \in AllIds |-> NoOne]
      /\ products = before[w]

\* a request whose first item is fine and whose second has quantity 0
C13_Witness ==
  /\ pc[SeqWorker] = "done"
  /\ Len(cart[SeqWorker]) = 2
  /\ cart[SeqWorker][1].quantity = 1
  /\ products[cart[SeqWorker][1].product_id].current_stock >= 1
  /\ cart[SeqWorker][2].quantity = 0
  /\ outcome[SeqWorker].kind = "RequestValidationError"

\* C14: decrement_stock(P, q) on an existing product goes through exactly
\* when the stock it finds is at least q, and then the stock is that stock
\* minus q; otherwise it raises the insufficient-stock error and writes
\* nothing.  Asking for exactly the stock leaves 0, asking for one more fails.
C14_Step ==
  \A t \in Txns :
    (pc[t] = "idle" /\ pc'[t] # "idle" /\ products[cart'[t][1].product_id] # NoRow) =>
      LET pid == cart'[t][1].product_id
          q == cart'[t][1].quantity
          current_stock == products[pid].current_stock
      IN IF current_stock >= q
           THEN /\ pc'[t] = "decremented"
                /\ pending'[t][pid] = current_stock - q
                /\ (q = current_stock => pending'[t][pid] = 0)
           ELSE /\ pc'[t] = "raised"
                /\ outcome'[t].kind = "LedgerInsufficientStock"
                /\ pending' = pending
                /\ products' = products

\* the committed row after a transaction ended: the stock it found minus q
\* when it went through, the stock it found when it did not
C14_Committed ==
  \A t \in Txns :
    (pc[t] = "done" /\ \A u \in Txns \ {t} : pc[u] = "idle") =>
      LET pid == cart[t][1].product_id
          q == cart[t][1].quantity
      IN products[pid].current_stock =
           IF outcome[t].kind = "ok" THEN before[t][pid].current_stock - q
           ELSE before[t][pid].current_stock

\* the same for a decrement_stock call made by step 6 of a checkout
C14_CheckoutStep ==
  \A w \in Workers :
    (/\ pc[w] = "decrement"
     /\ (idx'[w] # idx[w] \/ sub'[w] # sub[w] \/ pc'[w] # pc[w])
     /\ ~Target(w).none) =>
      LET pid == Target(w).id
          q == Target(w).qty
          current_stock == Visible(w, pid).current_stock
      IN IF current_stock >= q
           THEN /\ pc'[w] # "done"
                /\ pending'[w][pid] = current_stock - q
           ELSE /\ pc'[w] = "done"
                /\ outcome'[w].kind \in StockShortKinds
                /\ pending'[w] = NoPending
                /\ products' = products

C14_LedgerContract == [][C14_Step]_vars /\ []C14_Committed

C14_DecrementContract == [][C14_Step /\ C14_CheckoutStep]_vars /\ []C14_Committed

\* C15: a step of check_stock_availability changes no product row, no
\* composition entry and no sale, flushes nothing and takes no row lock,
\* whatever the cart and whatever the result.
C15_Step ==
  \A w \in Workers :
    (pc[w] = "check" /\ (idx'[w] # idx[w] \/ pc'[w] # pc[w])) =>
      /\ products' = products
      /\ set_items' = set_items
      /\ sales' = sales
      /\ pending' = pending
      /\ rowLock' = rowLock

C15_CheckWritesNothing == [][C15_Step]_vars

\* the check ran over a two-item cart and found it unavailable
C15_Witness ==
  /\ pc[SeqWorker] = "raise"
  /\ Len(cart[SeqWorker]) = 2
  /\ Len(insufficient[SeqWorker]) >= 1
  /\ products = before[SeqWorker]
  /\ rowLock = [p \in AllIds |-> NoOne]

\* C16: while a transaction that executed decrement_stock on P has neither
\* committed nor rolled back, no other transaction gets through the
\* read-check-write of decrement_stock on P; a decrement_stock on a product
\* on which no transaction is in flight can always go ahead.
C16_InFlight(u, pid) ==
  /\ pc[u] \in {"decremented", "raised"}
  /\ cart[u][1].product_id = pid
  /\ products[pid] # NoRow

C16_Step ==
  \A t \in Txns :
    (pc[t] = "idle" /\ pc'[t] # "idle") =>
      \A u \in Txns \ {t} : ~C16_InFlight(u, cart'[t][1].product_id)

C16_NotBlocked ==
  \A t \in Txns : \A pid \in SingleIds :
    (pc[t] = "idle" /\ \A u \in Txns \ {t} : ~C16_InFlight(u, pid)) =>
      ENABLED decrement_stock(t, pid, 1)

C16_Blocked ==
  \A t \in Txns : \A pid \in SingleIds :
    (\E u \in Txns \ {t} : C16_InFlight(u, pid)) =>
      ~ENABLED decrement_stock(t, pid, 1)

C16_RowLockExcludes == [][C16_Step]_vars /\ [](C16_NotBlocked /\ C16_Blocked)

\* a decrement on P2 went through while the transaction that decremented P1
\* was still open, and a third transaction is waiting
C16_Witness ==
  \E t, u, v \in Txns :
    /\ pc[t] = "decremented" /\ cart[t][1].product_id = "P1"
    /\ pc[u] = "decremented" /\ cart[u][1].product_id = "P2"
    /\ pc[v] = "idle"
    /\ ~ENABLED decrement_stock(v, "P1", 1)

\* C17: the committed stock, which is what other transactions read,
\* changes only in the commit step of a checkout, and that step publishes
\* the decrement of every base product the cart requires at once; a checkout
\* that fails publishes none.
C17_Step ==
  (\E p \in ProductIds : products'[p].current_stock # products[p].current_stock) =>
    \E w \in Workers :
      /\ pc[w] = "commit" /\ pc'[w] = "done" /\ outcome'[w].kind = "ok"
      /\ \A p \in ProductIds :
           /\ Need(cart[w], p) > 0 => pending[w][p] # NoVal
           /\ products'[p].current_stock =
                IF pending[w][p] # NoVal THEN pending[w][p]
                ELSE products[p].current_stock
      /\ pending'[w] = NoPending

C17_NothingPublishedBeforeCommit ==
  \A w \in Workers :
    (pc[w] \in {"decrement", "commit"} /\ ncalls = 1) =>
      \A p \in ProductIds : products[p].current_stock = before[w][p].current_stock

C17_DecrementsVisibleTogether ==
  [][C17_Step]_vars /\ []C17_NothingPublishedBeforeCommit

\* a checkout of the set committed its decrements of P1 and P2 while the
\* other terminal was in the middle of a checkout
C17_Witness ==
  \E w, u \in Workers :
    /\ Succeeded(w) /\ cart[w][1].product_id = "S1"
    /\ products["P1"].current_stock < before[w]["P1"].current_stock
    /\ products["P2"].current_stock < before[w]["P2"].current_stock
    /\ pc[u] \in {"resolve", "check", "create_sale", "decrement"}

\* C18: no step changes the stored current_stock of a product of kind set,
\* and no checkout flushes a write to one, whatever compositions were created.
C18_Step ==
  \A p \in AllIds :
    products[p].product_type = "set" =>
      products'[p].current_stock = products[p].current_stock

C18_NoSetWrite ==
  \A w \in Workers : \A p \in AllIds :
    products[p].product_type = "set" => pending[w][p] = NoVal

C18_SetStockNeverDecremented == [][C18_Step]_vars /\ []C18_NoSetWrite

\* C19: every inventory status query reports for a set product the minimum
\* over its composition entries of floor(component stock / perSetQty), on the
\* committed component stocks of the moment of the query, and reports it out
\* of stock exactly when that minimum is 0.
C19_EntriesOf(p) == {i \in 1..Len(set_items) : set_items[i].set_product_id = p}

C19_Floor(i) ==
  LET stock == products[set_items[i].item_product_id].current_stock
      per == set_items[i].quantity
  IN CHOOSE k \in 0..stock : k * per <= stock /\ (k + 1) * per > stock

C19_Step ==
  status'.n = status.n + 1 =>
    \A p \in ProductIds :
      (products[p].product_type = "set" /\ C19_EntriesOf(p) # {}) =>
        /\ \E i \in C19_EntriesOf(p) : status'.result[p].current_stock = C19_Floor(i)
        /\ \A i \in C19_EntriesOf(p) : status'.result[p].current_stock <= C19_Floor(i)
        /\ status'.result[p].is_out_of_stock <=> (status'.result[p].current_stock = 0)

C19_StatusOfSetIsDerived == [][C19_Step]_vars

\* queried after one checkout went through and a second one failed: the set
\* that could be made at the start is now out of stock
C19_Witness ==
  /\ status.n > 0 /\ status.read = <<products, set_items>>
  /\ ncalls = 2 /\ Len(sales) = 1 /\ Failed(SeqWorker)
  /\ products["P1"].initial_stock >= set_items[1].quantity
  /\ products["P2"].initial_stock >= 1
  /\ status.result["S1"].is_out_of_stock
  /\ status.result["S1"].current_stock = 0

\* C20: an inventory status query changes no stored row and takes no lock,
\* and when nothing was committed since the previous query its result is the
\* previous result.
C20_Step ==
  status'.n = status.n + 1 =>
    /\ products' = products /\ set_items' = set_items /\ sales' = sales
    /\ rowLock' = rowLock /\ pending' = pending
    /\ (status.n > 0 /\ status.read = <<products, set_items>>) =>
         status'.result = status.result

DeleteStep == admin'.op = "delete" /\ nupdates' = nupdates + 1

\* C21: deleting a product that a sale line item or a set composition entry
\* (as component) refers to fails with a constraint violation and leaves the
\* product, the sale line items and the composition entries unchanged
C21_ReferencedDeleteFails ==
  [][(DeleteStep /\ products[admin'.product_id] # NoRow
        /\ (ReferencedBySale(admin'.product_id)
              \/ ReferencedAsComponent(admin'.product_id)))
       => (/\ admin'.result = "IntegrityError"
           /\ products' = products
           /\ sales' = sales
           /\ set_items' = set_items)]_vars

\* a product sold by a persisted sale, and not a component of any set, has
\* been refused deletion
C21_Witness ==
  /\ admin.op = "delete"
  /\ admin.result = "IntegrityError"
  /\ ReferencedBySale(admin.product_id)
  /\ ~ReferencedAsComponent(admin.product_id)
  /\ products[admin.product_id] # NoRow

\* ---------------------------------------------------------------------- C22
CreateSetStep ==
  /\ admin'.op = "create" /\ nupdates' = nupdates + 1
  /\ admin'.request.product_type = "set"

\* C22: creating a set product persists the product and all of its
\* composition entries together or not at all: a set without composition
\* entries is rejected with nothing stored, and when an entry cannot be
\* stored no product row of the call remains
C22_SetCreatedAtomically ==
  [][CreateSetStep =>
       LET pid == admin'.product_id
           items == admin'.request.set_items IN
       /\ \/ /\ products'[pid] # NoRow
             /\ items # << >>
             /\ set_items' = set_items \o items
             /\ admin'.result = "created"
          \/ /\ products' = products
             /\ set_items' = set_items
             /\ admin'.result # "created"
       /\ items = << >> => admin'.result = "INVALID_SET_ITEMS"
       /\ (items # << >> /\ ~Storable(items)) => products'[pid] = NoRow]_vars

\* a set whose component does not exist has been refused
C22_Witness ==
  /\ admin.op = "create"
  /\ admin.request.product_type = "set"
  /\ admin.result = "IntegrityError"
  /\ \E i \in 1..Len(admin.request.set_items) :
       products[admin.request.set_items[i].item_product_id] = NoRow
  /\ products[admin.product_id] = NoRow

\* ---------------------------------------------------------------------- C23
\* C23: a product's initial_stock never changes after creation and its
\* current_stock is changed only by the decrements a checkout commits: price
\* updates and product updates leave both stock fields of every product
\* unchanged
C23_StockChangedOnlyByLedger ==
  [][\A p \in AllIds :
       (products[p] # NoRow /\ products'[p] # NoRow) =>
         /\ products'[p].initial_stock = products[p].initial_stock
         /\ products'[p].current_stock # products[p].current_stock =>
              \E w \in Workers :
                /\ pc[w] = "commit" /\ pc'[w] = "done"
                /\ pending[w][p] # NoVal
                /\ products'[p].current_stock = pending[w][p]
         /\ nupdates' # nupdates =>
              products'[p].current_stock = products[p].current_stock]_vars

\* P1 was renamed by a product update and one unit of it was sold
C23_Witness ==
  /\ nupdates = 1
  /\ products["P1"].name = "n2"
  /\ products["P1"].initial_stock = MaxStock
  /\ products["P1"].current_stock = MaxStock - 1
  /\ \A w \in Workers : pc[w] = "idle"

\* ---------------------------------------------------------------------- C24
\* a call of complete_ticket by w arrives and reads the ticket
C24_CallStep(w) == kitchen'[w].n = kitchen[w].n + 1
\* the call of w commits and answers
C24_SuccessStep(w) == kitchen[w].pc = "commit" /\ kitchen'[w].result = "ok"

\* C24: complete_ticket succeeds only for an existing ticket whose
\* completed_at the call found unset, and then records completed_at and
\* completed_by; for a ticket that is already completed it fails with
\* TicketAlreadyCompleted and leaves both fields unchanged; for an unknown
\* ticket id it fails with TicketNotFound and changes nothing
C24_CompleteTicketContract ==
  [][\A w \in Workers :
       LET k == kitchen'[w].ticket_id IN
       /\ C24_CallStep(w) =>
            /\ tickets' = tickets
            /\ tickets[k].sale_id = 0 <=> kitchen'[w].result = "TicketNotFoundError"
            /\ (tickets[k].sale_id # 0 /\ tickets[k].completed_at # 0)
                 <=> kitchen'[w].result = "TicketAlreadyCompletedError"
            /\ kitchen'[w].pc = "mark"
                 <=> (tickets[k].sale_id # 0 /\ tickets[k].completed_at = 0)
       /\ C24_SuccessStep(w) =>
            /\ tickets[k].sale_id # 0
            /\ tickets'[k].completed_at = kitchen[w].completed_at
            /\ tickets'[k].completed_at # 0
            /\ tickets'[k].completed_by = kitchen[w].completed_by
            /\ tickets'[k].sale_id = tickets[k].sale_id
            /\ \A j \in TicketIds \ {k} : tickets'[j] = tickets[j]
       /\ kitchen'[w].result = "ok" => kitchen[w].pc \in {"commit", "done", "idle"}]_vars

\* u2 was refused a ticket that u1 had completed, and the ticket is still u1's
C24_Witness ==
  \E w \in Workers :
    /\ kitchen[w].result = "TicketAlreadyCompletedError"
    /\ kitchen[w].completed_by = "u2"
    /\ tickets[kitchen[w].ticket_id].completed_by = "u1"
    /\ tickets[kitchen[w].ticket_id].completed_at = 1

\* ---------------------------------------------------------------------- C29
\* C29: of two complete_ticket calls for the same uncompleted ticket exactly
\* one succeeds, the other fails with TicketAlreadyCompleted, and the stored
\* completed_by and completed_at are those of the call that succeeded
C29_ExactlyOneCompletes ==
  \A w, v \in Workers :
    (/\ w # v
     /\ kitchen[w].ticket_id = kitchen[v].ticket_id
     /\ kitchen[w].result = "ok"
     /\ kitchen[v].result \in {"ok", "TicketAlreadyCompletedError"})
    => /\ kitchen[v].result = "TicketAlreadyCompletedError"
       /\ tickets[kitchen[w].ticket_id].completed_by = kitchen[w].completed_by
       /\ tickets[kitchen[w].ticket_id].completed_at = kitchen[w].completed_at

\* ---------------------------------------------------------------------- C30
ListingStep == listed'.n = listed.n + 1
Listed(result, sale_id) == \E i \in 1..Len(result) : result[i].sale_id = sale_id
TicketCompleted(sale_id) ==
  \E k \in TicketIds : tickets[k].sale_id = sale_id /\ tickets[k].completed_at # 0

\* C30: after a checkout succeeded its sale is listed by get_active_tickets
\* as an uncompleted kitchen ticket on every later call until complete_ticket
\* succeeds for that ticket, and never after that
C30_SaleListedUntilCompleted ==
  [][ListingStep =>
       /\ Succeeded(SeqWorker) =>
            \A n \in SalesOfCall(callId[SeqWorker]) :
              ~TicketCompleted(n) => Listed(listed'.result, n)
       /\ \A n \in 1..Len(sales) : TicketCompleted(n) => ~Listed(listed'.result, n)]_vars

\* ---------------------------------------------------------------------- C25
\* the units of single product p the persisted sale records account for
RECURSIVE UnitsSold(_, _)
UnitsSold(n, p) == IF n = 0 THEN 0 ELSE Need(sales[n].items, p) + UnitsSold(n - 1, p)

NoCheckoutInProgress == \A w \in Procs : pc[w] \in {"idle", "done"}

\* C25: whenever no checkout is in progress, initial_stock - current_stock of
\* every single product equals the units of it that the persisted sale
\* records account for, directly and through sets; no sale record exists
\* whose decrements were not applied
C25_StockMatchesSales ==
  NoCheckoutInProgress =>
    \A p \in SingleIds :
      products[p].initial_stock - products[p].current_stock = UnitsSold(Len(sales), p)

\* ---------------------------------------------------------------------- C27
\* C27: whenever checkout fails with InsufficientStock, the reported
\* requested quantity is the total the whole cart requires of the named
\* product, summed over direct items and set expansions, and it is strictly
\* greater than the reported available quantity
C27_ReportedShortage ==
  \A w \in Workers :
    (pc[w] = "done" /\ outcome[w].kind = "InsufficientStock") =>
      /\ outcome[w].requested = Need(cart[w], outcome[w].product_id)
      /\ outcome[w].requested > outcome[w].available

\* ---------------------------------------------------------------------- C28
\* check_stock_availability has returned for the cart of w
C28_Checked(w) == pc[w] \in {"create_sale", "raise"}

C26_NoDeadlock ==
  \A w \in Workers :
    /\ ~Deadlocked(w)
    /\ outcome[w].kind # "DeadlockDetected"

====
